---- MODULE Spec2Model ----
(***************************************************************************)
(* Model of mergechallan.py: the Tk front end (App), the worker thread it  *)
(* spawns (run_merger_thread) and the batch it runs (merge_pdfs_logic).    *)
(*                                                                         *)
(* A string is a sequence of tokens; a token is a letter, a space, a dot,  *)
(* an extension word or the "_combined" suffix.  A PDF is the sequence of  *)
(* its pages, a page being named after the input file it comes from.       *)
(***************************************************************************)
EXTENDS Integers, Sequences, FiniteSets, TLC

\* ------------------------------------------------------------------ bounds
MaxRows == 2      \* rows of the mapping spreadsheet
MaxClicks == 2    \* invocations of the Start button's command

\* ----------------------------------------------------------------- strings
SP == " "
DOT == "."

\* str.strip(): drop the leading and the trailing whitespace.
RECURSIVE LStrip(_)
LStrip(s) == IF s # <<>> /\ Head(s) = SP THEN LStrip(Tail(s)) ELSE s

RECURSIVE RStrip(_)
RStrip(s) ==
    IF s # <<>> /\ s[Len(s)] = SP THEN RStrip(SubSeq(s, 1, Len(s) - 1)) ELSE s

Strip(s) == RStrip(LStrip(s))

\* str.lower(), token by token.
LowerTok(c) ==
    CASE c = "A" -> "a"
      [] c = "B" -> "b"
      [] c = "PDF" -> "pdf"
      [] OTHER -> c

Lower(s) == [i \in DOMAIN s |-> LowerTok(s[i])]

EndsWith(s, suf) ==
    /\ Len(s) >= Len(suf)
    /\ SubSeq(s, Len(s) - Len(suf) + 1, Len(s)) = suf

PdfSuffix == <<DOT, "pdf">>

\* f.lower().endswith('.pdf')
IsPdfName(f) == EndsWith(Lower(f), PdfSuffix)

\* os.path.splitext(f)[0]: cut at the last dot, unless only dots precede it.
SplitExtRoot(f) ==
    LET dots == {i \in DOMAIN f : f[i] = DOT /\ \E j \in 1..(i - 1) : f[j] # DOT}
    IN  IF dots = {} THEN f
        ELSE SubSeq(f, 1, (CHOOSE i \in dots : \A k \in dots : k <= i) - 1)

\* f"{challan_num}.pdf"
ChallanFileName(num) == num \o PdfSuffix

\* f"{employee_name}_combined.pdf"
OutputFileName(employee_name) == employee_name \o <<"_combined">> \o PdfSuffix

\* ------------------------------------------------------------- file system
\* A directory is the sequence of its entries in enumeration order; an entry
\* is [name, data]; data is [kind, pages] with kind "pdf" (readable),
\* "corrupt" (PdfWriter.append raises on it; an empty file is one) or
\* "poison" (append accepts it, PdfWriter.write raises).
GoodPdf(pages) == [kind |-> "pdf", pages |-> pages]
CorruptFile == [kind |-> "corrupt", pages |-> <<>>]
PoisonPdf(pages) == [kind |-> "poison", pages |-> pages]
EmptyFile == CorruptFile

\* os.path.isdir / the directory is there
DirExists(fsys, d) == d \in DOMAIN fsys

\* os.listdir(d), for an existing directory
ListDir(fsys, d) == [i \in DOMAIN fsys[d] |-> fsys[d][i].name]

\* os.path.exists(os.path.join(d, name))
PathExists(fsys, d, name) ==
    /\ DirExists(fsys, d)
    /\ \E i \in DOMAIN fsys[d] : fsys[d][i].name = name

ReadFile(fsys, d, name) ==
    fsys[d][CHOOSE i \in DOMAIN fsys[d] : fsys[d][i].name = name].data

\* WriteFile with the file opened 'ab': what is there is kept.
WriteFileAppendMode(fsys, d, name, data) ==
    IF PathExists(fsys, d, name)
    THEN [fsys EXCEPT ![d] =
            [i \in DOMAIN fsys[d] |->
                IF fsys[d][i].name = name
                THEN [name |-> name,
                      data |-> [kind |-> data.kind,
                                pages |-> fsys[d][i].data.pages \o data.pages]]
                ELSE fsys[d][i]]]
    ELSE [fsys EXCEPT ![d] = Append(fsys[d], [name |-> name, data |-> data])]

\* open(path, 'wb') followed by a write of data: the file is created, or
\* replaced in place when it is there already.
WriteFile(fsys, d, name, data) ==
    IF PathExists(fsys, d, name)
    THEN [fsys EXCEPT ![d] =
            [i \in DOMAIN fsys[d] |->
                IF fsys[d][i].name = name THEN [name |-> name, data |-> data]
                ELSE fsys[d][i]]]
    ELSE [fsys EXCEPT ![d] = Append(fsys[d], [name |-> name, data |-> data])]

\* ------------------------------------------------------------- spreadsheet
EmployeeCol == <<"Employee", SP, "Name">>
ChallanCol == <<"Challan", SP, "Number">>

\* df.columns = [str(col).strip() for col in df.columns]
StripColumns(cols) == [i \in DOMAIN cols |-> Strip(cols[i])]

HasColumn(cols, c) == \E i \in DOMAIN cols : cols[i] = c
ColumnIndex(cols, c) == CHOOSE i \in DOMAIN cols : cols[i] = c

\* ReadExcel with the header check failing only when both headers are absent.
ReadExcelBothAbsent(x) ==
    IF x.status = "missing" THEN [result |-> "FileNotFound"]
    ELSE IF x.status = "unreadable" THEN [result |-> "ReadError"]
    ELSE LET cols == StripColumns(x.columns)
         IN  IF ~HasColumn(cols, EmployeeCol) /\ ~HasColumn(cols, ChallanCol)
             THEN [result |-> "SchemaError", columns |-> cols]
             ELSE [result |-> "ok", columns |-> cols, rows |-> x.rows]

\* pd.read_excel + the header check of lines 72-90:
\* "FileNotFound", "ReadError", "SchemaError" or "ok" with the frame.
ReadExcel(x) ==
    IF x.status = "missing" THEN [result |-> "FileNotFound"]
    ELSE IF x.status = "unreadable" THEN [result |-> "ReadError"]
    ELSE LET cols == StripColumns(x.columns)
         IN  IF ~HasColumn(cols, EmployeeCol) \/ ~HasColumn(cols, ChallanCol)
             THEN [result |-> "SchemaError", columns |-> cols]
             ELSE [result |-> "ok", columns |-> cols, rows |-> x.rows]

\* EmployeeChallans with the names compared in lower case.
EmployeeChallansIgnoreCase(df, employee_name) ==
    LET n == ColumnIndex(df.columns, EmployeeCol)
        Match(r) == Lower(Strip(r[n])) = Lower(Strip(employee_name))
    IN  SelectSeq(df.rows, Match)

\* df[df['Employee Name'].astype(str).str.strip() == employee_name.strip()]
EmployeeChallans(df, employee_name) ==
    LET n == ColumnIndex(df.columns, EmployeeCol)
        Match(r) == Strip(r[n]) = Strip(employee_name)
    IN  SelectSeq(df.rows, Match)

\* str(row['Challan Number']).strip()
ChallanNum(df, row) == Strip(row[ColumnIndex(df.columns, ChallanCol)])

\* ------------------------------------------------------------------- state
VARIABLES
    paths,        \* App.paths: the four StringVars ("" while unset)
    button,       \* App.start_button's state: "normal" or "disabled"
    clicks,       \* invocations of start_processing so far
    threads,      \* the worker threads started, oldest first
    log,          \* every record handed to the root logger, oldest first
    fs,           \* the directories: name -> entries
    xlsx,         \* the mapping spreadsheet the Excel path names
    openWriters,  \* PdfWriter objects created and not closed: <<thread, index>>
    obs           \* per thread: the directories at its start and at its end

vars == <<paths, button, clicks, threads, log, fs, xlsx, openWriters, obs>>

MainThread == 0

\* a logging.LogRecord: the thread that logged, the level, the message
Rec(t, level, msg, arg) == [thread |-> t, level |-> level, msg |-> msg, arg |-> arg]

\* ------------------------------------------------------ merge_pdfs_logic
\* AppendChallans leaving the loop at the first receipt that is not there.
RECURSIVE AppendChallansBreak(_, _, _, _, _, _)
AppendChallansBreak(t, df, rows, challan_dir, fsys, st) ==
    IF rows = <<>> THEN st
    ELSE
        LET challan_filename == ChallanFileName(ChallanNum(df, Head(rows)))
            data == ReadFile(fsys, challan_dir, challan_filename)
        IN  IF PathExists(fsys, challan_dir, challan_filename)
            THEN AppendChallansBreak(t, df, Tail(rows), challan_dir, fsys,
                    IF data.kind = "corrupt"
                    THEN [st EXCEPT !.out = Append(@,
                             Rec(t, "WARNING", "challan_not_merged", challan_filename))]
                    ELSE [pages |-> st.pages \o data.pages,
                          poisoned |-> st.poisoned \/ data.kind = "poison",
                          out |-> Append(st.out,
                             Rec(t, "INFO", "added_challan", challan_filename))])
            ELSE [st EXCEPT !.out = Append(@,
                     Rec(t, "WARNING", "challan_not_found", challan_filename))]

\* AppendChallans without the os.path.exists test: a receipt that is not
\* there fails to append and is reported as one that could not be merged.
RECURSIVE AppendChallansNoExistsTest(_, _, _, _, _, _)
AppendChallansNoExistsTest(t, df, rows, challan_dir, fsys, st) ==
    IF rows = <<>> THEN st
    ELSE
        LET challan_filename == ChallanFileName(ChallanNum(df, Head(rows)))
            data == ReadFile(fsys, challan_dir, challan_filename)
            next ==
                IF PathExists(fsys, challan_dir, challan_filename)
                      /\ data.kind # "corrupt"
                THEN [pages |-> st.pages \o data.pages,
                      poisoned |-> st.poisoned \/ data.kind = "poison",
                      out |-> Append(st.out,
                         Rec(t, "INFO", "added_challan", challan_filename))]
                ELSE [st EXCEPT !.out = Append(@,
                         Rec(t, "WARNING", "challan_not_merged", challan_filename))]
        IN  AppendChallansNoExistsTest(t, df, Tail(rows), challan_dir, fsys, next)

\* Lines 113-125: the loop over the employee's rows.  st is the writer so
\* far ([pages, poisoned]) with the records logged ([out]).
RECURSIVE AppendChallans(_, _, _, _, _, _)
AppendChallans(t, df, rows, challan_dir, fsys, st) ==
    IF rows = <<>> THEN st
    ELSE
        LET challan_filename == ChallanFileName(ChallanNum(df, Head(rows)))
            data == ReadFile(fsys, challan_dir, challan_filename)
            next ==
                IF PathExists(fsys, challan_dir, challan_filename)
                THEN IF data.kind = "corrupt"
                     THEN [st EXCEPT !.out = Append(@,
                              Rec(t, "WARNING", "challan_not_merged", challan_filename))]
                     ELSE [pages |-> st.pages \o data.pages,
                           poisoned |-> st.poisoned \/ data.kind = "poison",
                           out |-> Append(st.out,
                              Rec(t, "INFO", "added_challan", challan_filename))]
                ELSE [st EXCEPT !.out = Append(@,
                         Rec(t, "WARNING", "challan_not_found", challan_filename))]
        IN  AppendChallans(t, df, Tail(rows), challan_dir, fsys, next)

\* Lines 97-138: one iteration of the loop over total_certs, for thread
\* record w (index t) on the file system fsys.  The result names the outcome
\* ("skipped", "merged", "failed"), the file system after it, the records
\* logged, and whether merger.close() (line 132) was reached.
CertIteration(t, w, fsys) ==
    LET cert_filename == w.total_certs[w.idx]
        employee_name == SplitExtRoot(cert_filename)
        start == <<Rec(t, "INFO", "processing", employee_name)>>
        employee_challans == EmployeeChallans(w.df, employee_name)
        cert == ReadFile(fsys, w.paths.cert, cert_filename)
        st0 == [pages |-> cert.pages,
                poisoned |-> cert.kind = "poison",
                out |-> Append(start, Rec(t, "INFO", "added_certificate", cert_filename))]
        st == AppendChallans(t, w.df, employee_challans, w.paths.challan, fsys, st0)
        output_filename == OutputFileName(employee_name)
        Failed(f, out) ==
            [outcome |-> "failed", fs |-> f, created |-> TRUE, closed |-> FALSE,
             out |-> Append(out, Rec(t, "ERROR", "critical_error", employee_name))]
    IN  IF employee_challans = <<>>
        THEN [outcome |-> "skipped", fs |-> fsys, created |-> FALSE, closed |-> FALSE,
              out |-> Append(start, Rec(t, "WARNING", "no_challan_entries", employee_name))]
        ELSE IF ~PathExists(fsys, w.paths.cert, cert_filename) \/ cert.kind = "corrupt"
        THEN Failed(fsys, start)                               \* line 110 raises
        ELSE IF ~DirExists(fsys, w.paths.output)
        THEN Failed(fsys, st.out)                              \* line 130 raises
        ELSE IF st.poisoned                                    \* line 131 raises
        THEN Failed(WriteFile(fsys, w.paths.output, output_filename, EmptyFile), st.out)
        ELSE [outcome |-> "merged",
              fs |-> WriteFile(fsys, w.paths.output, output_filename, GoodPdf(st.pages)),
              created |-> TRUE, closed |-> TRUE,
              out |-> Append(st.out, Rec(t, "INFO", "created", output_filename))]

\* Lines 66-90: the start-up records, the spreadsheet load and its check.
LoadExcel(t) ==
    /\ t \in DOMAIN threads
    /\ threads[t].pc = "load"
    /\ LET w == threads[t]
           df == ReadExcel(xlsx)
           intro == <<Rec(t, "INFO", "starting", w.paths)>>
       IN  /\ obs' = [obs EXCEPT ![t].start = fs]
           /\ IF df.result = "ok"
              THEN /\ log' = log \o intro \o <<Rec(t, "INFO", "excel_loaded", <<>>)>>
                   /\ threads' = [threads EXCEPT ![t].pc = "list", ![t].df = df]
              ELSE /\ log' = log \o intro \o <<Rec(t, "ERROR", df.result, <<>>)>>
                   /\ threads' = [threads EXCEPT ![t].pc = "finally"]
    /\ UNCHANGED <<paths, button, clicks, fs, xlsx, openWriters>>

\* Lines 92-94: the work list.  os.listdir raises when the directory is not
\* there; nothing in merge_pdfs_logic catches it, run_merger_thread does
\* (lines 216-217).
ListCerts(t) ==
    /\ t \in DOMAIN threads
    /\ threads[t].pc = "list"
    /\ LET w == threads[t]
           IsPdf(f) == IsPdfName(f)
           total_certs == SelectSeq(ListDir(fs, w.paths.cert), IsPdf)
       IN  IF DirExists(fs, w.paths.cert)
           THEN /\ threads' = [threads EXCEPT ![t].pc = "loop",
                                              ![t].total_certs = total_certs,
                                              ![t].idx = 1,
                                              ![t].processed_files = 0]
                /\ log' = Append(log, Rec(t, "INFO", "found", Len(total_certs)))
           ELSE /\ threads' = [threads EXCEPT ![t].pc = "finally"]
                /\ log' = Append(log, Rec(t, "CRITICAL", "unhandled", <<>>))
    /\ UNCHANGED <<paths, button, clicks, fs, xlsx, openWriters, obs>>

\* Lines 96-138: one certificate of the work list.
ProcessCert(t) ==
    /\ t \in DOMAIN threads
    /\ threads[t].pc = "loop"
    /\ threads[t].idx <= Len(threads[t].total_certs)
    /\ LET w == threads[t]
           r == CertIteration(t, w, fs)
       IN  /\ fs' = r.fs
           /\ log' = log \o r.out
           /\ openWriters' =
                 IF r.created /\ ~r.closed
                 THEN openWriters \cup {<<t, w.idx>>} ELSE openWriters
           /\ threads' = [threads EXCEPT
                 ![t].idx = @ + 1,
                 ![t].processed_files = IF r.outcome = "merged" THEN @ + 1 ELSE @]
    /\ UNCHANGED <<paths, button, clicks, xlsx, obs>>

\* Lines 140-141: the final summary.
Summary(t) ==
    /\ t \in DOMAIN threads
    /\ threads[t].pc = "loop"
    /\ threads[t].idx > Len(threads[t].total_certs)
    /\ log' = Append(log, Rec(t, "INFO", "summary",
                 <<threads[t].processed_files, Len(threads[t].total_certs)>>))
    /\ threads' = [threads EXCEPT ![t].pc = "finally"]
    /\ UNCHANGED <<paths, button, clicks, fs, xlsx, openWriters, obs>>

\* ------------------------------------------------------------------- App
\* run_merger_thread's finally (lines 218-220): the last thing a worker does.
Finally(t) ==
    /\ t \in DOMAIN threads
    /\ threads[t].pc = "finally"
    /\ button' = "normal"
    /\ threads' = [threads EXCEPT ![t].pc = "done"]
    /\ obs' = [obs EXCEPT ![t].end = fs]
    /\ UNCHANGED <<paths, clicks, log, fs, xlsx, openWriters>>

NewWorker(p) ==
    [pc |-> "load", paths |-> p, df |-> [result |-> "none"],
     total_certs |-> <<>>, idx |-> 1, processed_files |-> 0]

\* start_processing without line 206: the button stays enabled.
StartProcessingNoDisable ==
    /\ button = "normal"
    /\ clicks < MaxClicks
    /\ clicks' = clicks + 1
    /\ IF \E k \in DOMAIN paths : paths[k] = ""
       THEN /\ log' = Append(log, Rec(MainThread, "ERROR", "paths_required", <<>>))
            /\ UNCHANGED <<threads, obs>>
       ELSE /\ threads' = Append(threads, NewWorker(paths))
            /\ obs' = Append(obs, [start |-> <<>>, end |-> <<>>])
            /\ UNCHANGED log
    /\ UNCHANGED <<button, paths, fs, xlsx, openWriters>>

\* start_processing (lines 200-211), the Start button's command.  Tk does not
\* deliver the command of a disabled button.
StartProcessing ==
    /\ button = "normal"
    /\ clicks < MaxClicks
    /\ clicks' = clicks + 1
    /\ IF \E k \in DOMAIN paths : paths[k] = ""
       THEN /\ log' = Append(log, Rec(MainThread, "ERROR", "paths_required", <<>>))
            /\ UNCHANGED <<button, threads, obs>>
       ELSE /\ button' = "disabled"
            /\ threads' = Append(threads, NewWorker(paths))
            /\ obs' = Append(obs, [start |-> <<>>, end |-> <<>>])
            /\ UNCHANGED log
    /\ UNCHANGED <<paths, fs, xlsx, openWriters>>

\* what the dialogs can return: the directories, one that is not there
\* (askdirectory does not require the directory to exist), the spreadsheet
ExcelPath == "map.xlsx"
DirChoices ==
    [cert |-> {"certs", "nodir"}, challan |-> {"challans"}, output |-> {"out", "certs"}]

\* select_directory (lines 190-193): a cancelled dialog returns "" and
\* leaves the variable as it is.
SelectDirectory ==
    /\ \E k \in {"cert", "challan", "output"} :
       \E path \in {"", "certs", "challans", "out", "nodir"} :
          /\ path # "" => path \in DirChoices[k]
          /\ paths' = IF path # "" THEN [paths EXCEPT ![k] = path] ELSE paths
    /\ UNCHANGED <<button, clicks, threads, log, fs, xlsx, openWriters, obs>>

\* select_file (lines 195-198)
SelectFile ==
    /\ \E path \in {"", ExcelPath} :
          paths' = IF path # "" THEN [paths EXCEPT !.excel = path] ELSE paths
    /\ UNCHANGED <<button, clicks, threads, log, fs, xlsx, openWriters, obs>>

\* ------------------------------------------------------------- the inputs
CertA == <<"A", DOT, "pdf">>
CertAUpper == <<"A", DOT, "PDF">>
CertB == <<"B", SP, DOT, "pdf">>
NotPdf == <<"A", DOT, "txt">>
Challan1 == <<"1", DOT, "pdf">>
Challan2 == <<"2", DOT, "pdf">>

File(name, data) == [name |-> name, data |-> data]

\* The certificate directory: any of the four names, "A.pdf" readable,
\* corrupt or poisoned, enumerated in one order or in the reverse one
\* (os.listdir promises no order).
CertNames == <<CertA, CertAUpper, CertB, NotPdf>>

Reverse(q) == [i \in DOMAIN q |-> q[Len(q) + 1 - i]]

CertDir(S, kind, rev) ==
    LET Chosen(f) == f \in S
        names == SelectSeq(CertNames, Chosen)
        dir == [i \in DOMAIN names |->
                  File(names[i],
                       IF names[i] # CertA \/ kind = "pdf" THEN GoodPdf(<<names[i]>>)
                       ELSE IF kind = "corrupt" THEN CorruptFile
                       ELSE PoisonPdf(<<names[i]>>))]
    IN  IF rev THEN Reverse(dir) ELSE dir

CertDirs ==
    {CertDir(S, kind, rev) :
        S \in SUBSET {CertNames[i] : i \in DOMAIN CertNames},
        kind \in {"pdf", "corrupt", "poison"},
        rev \in BOOLEAN}

\* The receipt directory: "2.pdf", and "1.pdf" readable, corrupt or absent.
ChallanDirs ==
    {a \o <<File(Challan2, GoodPdf(<<Challan2>>))>> :
        a \in {<<>>, <<File(Challan1, GoodPdf(<<Challan1>>))>>,
               <<File(Challan1, CorruptFile)>>}}

FsChoices ==
    {[certs |-> c, challans |-> h, out |-> <<>>] : c \in CertDirs, h \in ChallanDirs}

\* The sheet's rows, as (name cell, challan cell) pairs.
Pairs == {<<<<"A", SP>>, <<"1">>>>, <<<<"A", SP>>, <<SP, "2", SP>>>>, <<<<"b">>, <<"1">>>>}
PairSeqs(n) == UNION {[1..k -> Pairs] : k \in 0..n}

\* a sheet with the name column first, or with padded headers and the
\* challan column first, or with one of the two headers not there
PlainSheet(ps) ==
    [status |-> "ok", columns |-> <<EmployeeCol, ChallanCol>>,
     rows |-> [i \in DOMAIN ps |-> <<ps[i][1], ps[i][2]>>]]
PaddedSheet(ps) ==
    [status |-> "ok", columns |-> <<ChallanCol \o <<SP>>, <<SP>> \o EmployeeCol>>,
     rows |-> [i \in DOMAIN ps |-> <<ps[i][2], ps[i][1]>>]]
NoChallanSheet(ps) == [PlainSheet(ps) EXCEPT !.columns = <<EmployeeCol, <<"Challan">>>>]
NoNameSheet(ps) == [PlainSheet(ps) EXCEPT !.columns = <<<<"Name">>, ChallanCol>>]

ExcelChoices ==
    {[status |-> "missing"], [status |-> "unreadable"]}
        \cup {PlainSheet(ps) : ps \in PairSeqs(MaxRows)}
        \cup {PaddedSheet(ps) : ps \in PairSeqs(MaxRows - 1)}
        \cup {NoChallanSheet(ps) : ps \in PairSeqs(MaxRows - 1)}
        \cup {NoNameSheet(ps) : ps \in PairSeqs(MaxRows - 1)}

Paths(c, h, o, x) == [cert |-> c, challan |-> h, output |-> o, excel |-> x]

\* the four paths as one would choose them, and the three other choices:
\* the outputs go to the certificate directory, or a directory is not there
NominalPaths == Paths("certs", "challans", "out", ExcelPath)
OtherPaths ==
    {Paths("certs", "challans", "certs", ExcelPath),
     Paths("certs", "challans", "nodir", ExcelPath),
     Paths("nodir", "challans", "out", ExcelPath)}

\* --------------------------------------------------------- specifications
Idle ==
    /\ button = "normal"
    /\ clicks = 0
    /\ threads = <<>>
    /\ log = <<>>
    /\ openWriters = {}
    /\ obs = <<>>

\* The batch: the four paths are chosen.  With the nominal paths the sheet is
\* any of the above; with the other paths it is a plain sheet.
Init ==
    /\ \/ paths = NominalPaths /\ xlsx \in ExcelChoices
       \/ paths \in OtherPaths /\ xlsx \in {PlainSheet(ps) : ps \in PairSeqs(MaxRows - 1)}
    /\ fs \in FsChoices
    /\ Idle

Next ==
    \/ StartProcessing
    \/ \E t \in DOMAIN threads : LoadExcel(t)
    \/ \E t \in DOMAIN threads : ListCerts(t)
    \/ \E t \in DOMAIN threads : ProcessCert(t)
    \/ \E t \in DOMAIN threads : Summary(t)
    \/ \E t \in DOMAIN threads : Finally(t)

Spec == Init /\ [][Next]_vars

\* The front end: App.__init__ leaves the four paths unset (line 150); the
\* inputs are the scenario of three rows, two certificates and one receipt.
ScenarioSheet == PlainSheet(<<<<<<"A", SP>>, <<"1">>>>, <<<<"A", SP>>, <<SP, "2", SP>>>>>>)
ScenarioFs ==
    [certs |-> <<File(CertA, GoodPdf(<<CertA>>)), File(CertB, GoodPdf(<<CertB>>))>>,
     challans |-> <<File(Challan1, GoodPdf(<<Challan1>>))>>,
     out |-> <<>>]

InitGui ==
    /\ paths = Paths("", "", "", "")
    /\ xlsx \in {ScenarioSheet, [status |-> "missing"]}
    /\ fs = ScenarioFs
    /\ Idle

NextGui ==
    \/ Next
    \/ SelectDirectory
    \/ SelectFile

SpecGui == InitGui /\ [][NextGui]_vars

\* ------------------------------------------------- reading the log back
LogOf(t) == LET Mine(r) == r.thread = t IN SelectSeq(log, Mine)

HasRecord(L, level, msg) == \E k \in DOMAIN L : L[k].level = level /\ L[k].msg = msg

CountRecords(L, msg) == Cardinality({k \in DOMAIN L : L[k].msg = msg})

\* L cut into iterations: each runs from a "processing" record up to the
\* next one, or the summary, or the end
RECURSIVE IterSplit(_, _, _, _)
IterSplit(L, k, acc, open) ==
    IF k > Len(L) THEN acc
    ELSE IF L[k].msg = "processing"
         THEN IterSplit(L, k + 1, Append(acc, <<L[k]>>), TRUE)
    ELSE IF L[k].msg = "summary" \/ ~open
         THEN IterSplit(L, k + 1, acc, FALSE)
    ELSE IterSplit(L, k + 1, [acc EXCEPT ![Len(acc)] = Append(@, L[k])], TRUE)

\* the records of each iteration thread t has completed
Iters(t) == IterSplit(LogOf(t), 1, <<>>, FALSE)

\* the iterations thread t has completed
DoneIters(t) == 1..(threads[t].idx - 1)

CertOf(t, i) == threads[t].total_certs[i]
BaseOf(t, i) == SplitExtRoot(CertOf(t, i))

\* the employee's rows, and the receipt file each names, in sheet order
RowsOf(t, i) ==
    LET n == ColumnIndex(threads[t].df.columns, EmployeeCol)
    IN  {k \in DOMAIN threads[t].df.rows :
            Strip(threads[t].df.rows[k][n]) = Strip(BaseOf(t, i))}

ReceiptOf(t, k) ==
    LET c == ColumnIndex(threads[t].df.columns, ChallanCol)
    IN  Strip(threads[t].df.rows[k][c]) \o <<DOT, "pdf">>

ReceiptThere(t, k) ==
    \E e \in DOMAIN fs[threads[t].paths.challan] :
        fs[threads[t].paths.challan][e].name = ReceiptOf(t, k)

ReceiptGood(t, k) ==
    \E e \in DOMAIN fs[threads[t].paths.challan] :
        /\ fs[threads[t].paths.challan][e].name = ReceiptOf(t, k)
        /\ fs[threads[t].paths.challan][e].data.kind = "pdf"

\* the pages the claim expects in the output of iteration i: the
\* certificate's, then one page per row whose receipt is there and readable
RECURSIVE ReceiptPages(_, _, _)
ReceiptPages(t, i, k) ==
    IF k = 0 THEN <<>>
    ELSE ReceiptPages(t, i, k - 1) \o
            (IF k \in RowsOf(t, i) /\ ReceiptGood(t, k) THEN <<ReceiptOf(t, k)>> ELSE <<>>)

ExpectedPages(t, i) ==
    ReadFile(fs, threads[t].paths.cert, CertOf(t, i)).pages
        \o ReceiptPages(t, i, Len(threads[t].df.rows))

Merged(seg) == HasRecord(seg, "INFO", "created")

Latest(t) == t = Len(threads)

\* thread t is the latest and has just merged the certificate of its last
\* completed iteration
JustMerged(t) ==
    /\ Latest(t)
    /\ threads[t].idx > 1
    /\ Merged(Iters(t)[threads[t].idx - 1])

\* ------------------------------------------------------------------ claims
\* C1: the output of a merged certificate is the certificate, then exactly
\* the receipts of that person's rows whose file is in the receipt directory
\* and was appended without error, in sheet order; a missing receipt is
\* never part of it.
C1_OutputIsCertThenFoundReceipts ==
    \A t \in DOMAIN threads :
        JustMerged(t) =>
            LET i == threads[t].idx - 1
                name == OutputFileName(BaseOf(t, i))
            IN  /\ PathExists(fs, threads[t].paths.output, name)
                /\ ReadFile(fs, threads[t].paths.output, name)
                      = GoodPdf(ExpectedPages(t, i))

\* "A.pdf" merged with its two receipts in the order of its two rows, the
\* first row naming receipt 2
C1_Witness ==
    \E t \in DOMAIN threads :
        /\ JustMerged(t)
        /\ ReadFile(fs, threads[t].paths.output, OutputFileName(<<"A">>)).pages
              = <<CertA, Challan2, Challan1>>

\* the summary record of thread t, when it has logged one
HasSummary(t) == HasRecord(LogOf(t), "INFO", "summary")
SummaryOf(t) ==
    LET L == LogOf(t) IN L[CHOOSE k \in DOMAIN L : L[k].msg = "summary"].arg

\* the output files thread t has written
WrittenBy(t) ==
    LET L == LogOf(t) IN {L[k].arg : k \in {j \in DOMAIN L : L[j].msg = "created"}}

\* C2: the succeeded count of the final summary never exceeds the total and
\* equals the number of output files written during the run.
C2_SucceededIsFilesWritten ==
    \A t \in DOMAIN threads :
        HasSummary(t) =>
            /\ SummaryOf(t)[1] <= SummaryOf(t)[2]
            /\ SummaryOf(t)[1] = Cardinality(WrittenBy(t))

\* C3: once the spreadsheet has loaded the batch runs to its summary: every
\* certificate of the directory is processed exactly once, a person that
\* fails has an error record, and the summary is logged.
C3_OnlyLoadFailureEndsBatch ==
    \A t \in DOMAIN threads :
        (threads[t].pc = "done" /\ HasRecord(LogOf(t), "INFO", "excel_loaded")) =>
            LET it == Iters(t)
            IN  /\ HasSummary(t)
                /\ Len(it) = Len(threads[t].total_certs)
                /\ \A i \in DOMAIN it :
                      \/ Merged(it[i])
                      \/ HasRecord(it[i], "WARNING", "no_challan_entries")
                      \/ HasRecord(it[i], "ERROR", "critical_error")

\* the sheet cannot be loaded: it is missing, unreadable, or one of the two
\* headers is not among its headers once trimmed
BadSheet ==
    \/ xlsx.status # "ok"
    \/ \A c \in DOMAIN xlsx.columns : Strip(xlsx.columns[c]) # <<"Employee", SP, "Name">>
    \/ \A c \in DOMAIN xlsx.columns : Strip(xlsx.columns[c]) # <<"Challan", SP, "Number">>

\* C4: with such a sheet the batch logs an error and stops: no certificate
\* is enumerated or processed and no file of any directory changes.
C4_BadSheetStopsBatch ==
    \A t \in DOMAIN threads :
        (BadSheet /\ threads[t].pc # "load") =>
            LET L == LogOf(t)
            IN  /\ threads[t].pc \in {"finally", "done"}
                /\ \E k \in DOMAIN L : L[k].level = "ERROR"
                /\ threads[t].total_certs = <<>>
                /\ CountRecords(L, "found") = 0
                /\ CountRecords(L, "processing") = 0
                /\ CountRecords(L, "summary") = 0
                /\ Latest(t) => fs = obs[t].start

\* a sheet whose second header is not "Challan Number" has stopped a batch
\* whose certificate directory holds a certificate
C4_Witness ==
    \E t \in DOMAIN threads :
        /\ threads[t].pc = "done"
        /\ xlsx.status = "ok" /\ xlsx.columns[2] = <<"Challan">>
        /\ HasRecord(LogOf(t), "ERROR", "SchemaError")
        /\ \E e \in DOMAIN fs.certs : fs.certs[e].name = CertA

\* the certificate of iteration i matches no row: no trimmed name cell is
\* its trimmed base name, compared as it stands
NoMatch(t, i) ==
    LET n == ColumnIndex(threads[t].df.columns, EmployeeCol)
    IN  \A k \in DOMAIN threads[t].df.rows :
            Strip(threads[t].df.rows[k][n]) # Strip(BaseOf(t, i))

Matched(t) == {i \in DoneIters(t) : ~NoMatch(t, i)}

\* C5: such a certificate is skipped: a warning is logged, no output file is
\* created for it, it is not counted as succeeded and it is counted in the
\* total.
C5_UnmatchedCertIsSkipped ==
    \A t \in DOMAIN threads :
        LET it == Iters(t)
        IN  /\ \A i \in DoneIters(t) :
                  NoMatch(t, i) =>
                     /\ Len(it[i]) = 2
                     /\ it[i][2].level = "WARNING"
                     /\ it[i][2].msg = "no_challan_entries"
                     /\ ~PathExists(fs, threads[t].paths.output,
                                    OutputFileName(BaseOf(t, i)))
            /\ threads[t].processed_files <= Cardinality(Matched(t))
            /\ HasSummary(t) =>
                  /\ SummaryOf(t)[2] = Len(it)
                  /\ SummaryOf(t)[1] <= Cardinality(Matched(t))

\* "B .pdf" was skipped although a row names "b", and the batch summed up
C5_Witness ==
    \E t \in DOMAIN threads :
        /\ HasSummary(t)
        /\ SummaryOf(t)[1] < SummaryOf(t)[2]
        /\ \E i \in DoneIters(t) :
              /\ BaseOf(t, i) = <<"B", SP>>
              /\ NoMatch(t, i)
              /\ HasRecord(Iters(t)[i], "WARNING", "no_challan_entries")
              /\ \E k \in DOMAIN threads[t].df.rows : threads[t].df.rows[k][1] = <<"b">>

\* the certificate of iteration i is readable and the output directory is
\* there: nothing but its receipts can be wrong
Mergeable(t, i) ==
    /\ ~NoMatch(t, i)
    /\ ReadFile(fs, threads[t].paths.cert, CertOf(t, i)).kind = "pdf"
    /\ DirExists(fs, threads[t].paths.output)

AbsentRows(t, i) == {k \in RowsOf(t, i) : ~ReceiptThere(t, k)}

\* C6: a certificate whose person has rows is merged, written and counted
\* as succeeded also when some or all of its receipt files are absent (with
\* all absent the output is the certificate alone), and exactly one
\* missing-file warning is logged per row whose receipt file is absent.
C6_AbsentReceiptsDoNotStopMerge ==
    \A t \in DOMAIN threads :
        LET it == Iters(t)
        IN  /\ threads[t].processed_files
                  = Cardinality({i \in DoneIters(t) : Merged(it[i])})
            /\ \A i \in DoneIters(t) :
                  Mergeable(t, i) =>
                     /\ Merged(it[i])
                     /\ CountRecords(it[i], "challan_not_found")
                           = Cardinality(AbsentRows(t, i))
                     /\ (Latest(t) /\ i = threads[t].idx - 1) =>
                           LET name == OutputFileName(BaseOf(t, i))
                               cert == ReadFile(fs, threads[t].paths.cert, CertOf(t, i))
                               outp == ReadFile(fs, threads[t].paths.output, name)
                           IN  /\ PathExists(fs, threads[t].paths.output, name)
                               /\ outp.kind = "pdf"
                               /\ AbsentRows(t, i) = RowsOf(t, i) => outp.pages = cert.pages

\* a certificate with two rows, both receipts absent, was merged into an
\* output that holds the certificate alone, with two warnings
C6_Witness ==
    \E t \in DOMAIN threads :
        /\ JustMerged(t)
        /\ LET i == threads[t].idx - 1
           IN  /\ Mergeable(t, i)
               /\ Cardinality(RowsOf(t, i)) = 2
               /\ AbsentRows(t, i) = RowsOf(t, i)
               /\ CountRecords(Iters(t)[i], "challan_not_found") = 2
               /\ ReadFile(fs, threads[t].paths.output,
                           OutputFileName(BaseOf(t, i))).pages = <<CertOf(t, i)>>
               /\ threads[t].processed_files >= 1

\* directory d is the same in the two snapshots a and b
SameDir(a, b, d) ==
    IF d \in DOMAIN a /\ d \in DOMAIN b THEN a[d] = b[d]
    ELSE d \notin DOMAIN a /\ d \notin DOMAIN b

\* the run of thread t started from the inputs the run before it started from
SameInputs(t) ==
    /\ threads[t].paths = threads[t - 1].paths
    /\ SameDir(obs[t - 1].start, obs[t].start, threads[t].paths.cert)
    /\ SameDir(obs[t - 1].start, obs[t].start, threads[t].paths.challan)

\* C7: a second run with the same four paths and unchanged inputs leaves
\* the output directory as the first run left it and reports the same
\* succeeded/total: the counts do not accumulate.
C7_SecondRunIsIdempotent ==
    \A t \in DOMAIN threads :
        (t > 1 /\ threads[t].pc = "done" /\ SameInputs(t)) =>
            /\ SameDir(obs[t - 1].end, obs[t].end, threads[t].paths.output)
            /\ HasSummary(t) = HasSummary(t - 1)
            /\ HasSummary(t) => SummaryOf(t) = SummaryOf(t - 1)

\* a second run over unchanged inputs has ended, both runs having merged a
\* certificate with a receipt
C7_Witness ==
    \E t \in DOMAIN threads :
        /\ t > 1 /\ threads[t].pc = "done" /\ SameInputs(t)
        /\ HasSummary(t) /\ SummaryOf(t)[1] >= 1
        /\ \E e \in DOMAIN obs[t].end.out : Len(obs[t].end.out[e].data.pages) >= 2

\* the output file an iteration has written
OutputOf(seg) == seg[CHOOSE k \in DOMAIN seg : seg[k].msg = "created"].arg

\* C8: two distinct certificate files of one batch are never written to the
\* same output path.
C8_OutputNamesAreOneToOne ==
    \A t \in DOMAIN threads :
        LET it == Iters(t)
        IN  \A i, j \in DoneIters(t) :
                (/\ i # j
                 /\ CertOf(t, i) # CertOf(t, j)
                 /\ Merged(it[i]) /\ Merged(it[j])) =>
                    OutputOf(it[i]) # OutputOf(it[j])

\* C9: the writer an iteration opens is closed by the end of that
\* iteration, whether the output was written or an error was raised.
C9_WriterClosedEachIteration ==
    \A t \in DOMAIN threads :
        \A i \in DoneIters(t) : <<t, i>> \notin openWriters

Running(t) == threads[t].pc # "done"

\* C10: at most one worker runs at a time: the button is disabled from the
\* step that spawns a worker until that worker ends, a click with a path
\* unset spawns none and leaves the button enabled, and only a worker's end
\* enables the button again.
C10_AtMostOneWorker ==
    /\ [](/\ Cardinality({t \in DOMAIN threads : Running(t)}) <= 1
          /\ (\E t \in DOMAIN threads : Running(t)) => button = "disabled")
    /\ [][(clicks' = clicks + 1 /\ \E k \in DOMAIN paths : paths[k] = "") =>
             (threads' = threads /\ button = "normal" /\ button' = "normal")]_vars
    /\ [][Len(threads') > Len(threads) =>
             (button = "normal" /\ button' = "disabled"
                /\ \A k \in DOMAIN paths : paths[k] # "")]_vars
    /\ [][(button = "disabled" /\ button' = "normal") =>
             \E t \in DOMAIN threads :
                 threads[t].pc = "finally" /\ threads'[t].pc = "done"]_vars

\* a worker runs behind a disabled button, after a click that was refused
C10_Witness ==
    /\ \E t \in DOMAIN threads : Running(t) /\ threads[t].pc = "loop"
    /\ button = "disabled"
    /\ HasRecord(log, "ERROR", "paths_required")

====
